---------------------------- MODULE Spec2Model ----------------------------
(***************************************************************************)
(* Stop-and-wait BLE UART transport of the micro:bit BLE logger            *)
(* (src/script.js) together with the echo firmware (src/unnamed/part_001). *)
(*                                                                         *)
(* Strings are sequences of character codes (UTF-16 code units on the      *)
(* host, bytes on the link).                                               *)
(***************************************************************************)
EXTENDS Integers, Sequences, FiniteSets, TLC

VARIABLES
    \* src/script.js, module state
    isConnected,        \* isConnected
    writeChar,          \* writeChar: "null" or "char"
    notifyChar,         \* notifyChar: "null" or "char"
    rxBuffer,           \* rxBuffer
    sendInProgress,     \* sendInProgress
    awaitingPayload,    \* awaitingPayload: <<>> for null, <<payload>> otherwise
    awaitingResolve,    \* awaitingResolve: "null" or "fn"
    awaitingReject,     \* awaitingReject: "null" or "fn"
    awaitingTimer,      \* awaitingTimer: "null" or "timer"
    \* sendChunkedSeqStopAndWait suspended at its await: its locals
    frames,             \* frames
    k,                  \* k, the loop index (0-based)
    rawBytes,           \* rawBytes
    \* what the last handler (with its microtasks) gave out
    ret,                \* <<value>> when sendChunkedSeqStopAndWait returned in it, <<>> otherwise
    log,                \* its log lines of type error (and the refusal of an empty message), in order
    handed,             \* the payloads it passed to tryResolveAck, in order
    wire,               \* the byte strings it passed to writeChar.writeValue, in order
    \* pending callbacks
    helloTimers,        \* number of pending setTimeout(() => sendMessageDirect('HELLO'), 250)
    connPc,             \* "idle", "connecting" (connect() at its awaits), "stopping" (disconnect() at its await)
    \* the link and the peer
    toHost,             \* bytes the peer has written and the host has not been notified of yet
    \* history of the current (or last) segmented send
    sendNo,             \* number of segmented sends started
    written,            \* the payloads this send passed to writeValue, in order
    acount,             \* waits of this send that resolved successfully
    delivered,          \* frames of this send the peer received
    dirty,              \* some wait of this send was resolved by an echo of another write
    late,               \* some wait of this send was resolved by the echo of a frame written for another wait
    orphaned,           \* waitForAck was called while a waiter or timer was still armed
    tags,               \* per line on its way to the host (in toHost or rxBuffer): the write it echoes
    \* makeFramesNoSpaces on its own
    fmsg,       \* makeFramesNoSpaces: the argument msg
    fframes,    \* makeFramesNoSpaces: the frames it returned
    fpc,        \* "call" before the call of makeFramesNoSpaces, "done" after its return
    \* handleIncomingData over one connection
    rxAll,      \* the bytes the notifications of this connection have brought so far
    rxHanded    \* the payloads passed to tryResolveAck in this connection, in order

hvars == <<isConnected, writeChar, notifyChar, rxBuffer, sendInProgress,
           awaitingPayload, awaitingResolve, awaitingReject, awaitingTimer,
           frames, k, rawBytes, ret, log, handed, wire, helloTimers, connPc, toHost,
           sendNo, written, acount, delivered, dirty, late, orphaned, tags>>

fvars == <<fmsg, fframes, fpc>>

rvars == <<rxAll, rxHanded>>

vars == <<hvars, fvars, rvars>>

---------------------------------------------------------------------------
(* Program constants *)

BLE_MAX_WRITE_BYTES == 20
LINE_END_BYTES == 1
MAX_SEQ == 1000

(* Character codes used by the program's string literals *)
CH_LF == 10
CH_CR == 13
CH_BAR == 124
CH_ZERO == 48

(* Bounds of the model *)
MaxSegLen == 40        \* segmentation is explored for every message length 0..MaxSegLen
MaxTypedLen == 22      \* SpecSend: texts of every length 0..MaxTypedLen are typed
LongLen == 15125       \* one long message: the first length that needs 1,002 frames

---------------------------------------------------------------------------
(* Strings *)

Min(a, b) == IF a < b THEN a ELSE b
Max(a, b) == IF a > b THEN a ELSE b

\* String.prototype.slice(a, b) for 0 <= a, 0 <= b (end clamped to the length)
Slice(s, a, b) == SubSeq(s, a + 1, Min(b, Len(s)))

\* String(n) for a non-negative integer: its decimal digits
RECURSIVE String(_)
String(n) == IF n < 10 THEN <<CH_ZERO + n>>
             ELSE String(n \div 10) \o <<CH_ZERO + (n % 10)>>

\* TextEncoder.encode of one code unit below U+0800 (UTF-8)
Utf8(c) == IF c < 128 THEN <<c>>
           ELSE <<192 + (c \div 64), 128 + (c % 64)>>

\* the strings ss[lo..hi] joined in order (split in halves to keep the
\* evaluation shallow)
RECURSIVE ConcatRange(_, _, _)
ConcatRange(ss, lo, hi) ==
    IF lo > hi THEN <<>>
    ELSE IF lo = hi THEN ss[lo]
    ELSE LET mid == (lo + hi) \div 2
         IN  ConcatRange(ss, lo, mid) \o ConcatRange(ss, mid + 1, hi)

Concat(ss) == ConcatRange(ss, 1, Len(ss))

\* TextEncoder.encode(s): the UTF-8 bytes of s
encode(s) == Concat([j \in 1..Len(s) |-> Utf8(s[j])])

---------------------------------------------------------------------------
(* Frame sizing and segmentation *)

maxDataLenForSeq(seq) ==
    LET seqLen == Len(String(seq))
        maxData == (BLE_MAX_WRITE_BYTES - LINE_END_BYTES) - (seqLen + 1)
    IN  Max(1, maxData)

\* a bug: the sequence number grows without wrapping
FrameLoopStepNoWrap(msg, st) ==
    LET dataLen == maxDataLenForSeq(st.seq)
        data == Slice(msg, st.i, st.i + dataLen)
    IN  [frames |-> Append(st.frames,
                           [seq |-> st.seq, payload |-> String(st.seq) \o <<CH_BAR>> \o data]),
         i |-> st.i + dataLen,
         seq |-> st.seq + 1]

\* a bug: the offset advances by one character too few, so frames overlap
FrameLoopStepOverlap(msg, st) ==
    LET dataLen == maxDataLenForSeq(st.seq)
        data == Slice(msg, st.i, st.i + dataLen)
    IN  [frames |-> Append(st.frames,
                           [seq |-> st.seq, payload |-> String(st.seq) \o <<CH_BAR>> \o data]),
         i |-> st.i + Max(1, dataLen - 1),
         seq |-> (st.seq + 1) % (MAX_SEQ + 1)]

\* one iteration of the while loop of makeFramesNoSpaces
FrameLoopStep(msg, st) ==
    LET dataLen == maxDataLenForSeq(st.seq)
        data == Slice(msg, st.i, st.i + dataLen)
    IN  [frames |-> Append(st.frames,
                           [seq |-> st.seq, payload |-> String(st.seq) \o <<CH_BAR>> \o data]),
         i |-> st.i + dataLen,
         seq |-> (st.seq + 1) % (MAX_SEQ + 1)]

FrameLoopInit == [frames |-> <<>>, i |-> 0, seq |-> 0]

\* the while loop of makeFramesNoSpaces, run in blocks of 32 iterations to keep
\* the evaluation shallow
RECURSIVE FrameLoopBlock(_, _, _)
FrameLoopBlock(msg, st, n) ==
    IF n > 0 /\ st.i < Len(msg)
    THEN FrameLoopBlock(msg, FrameLoopStep(msg, st), n - 1)
    ELSE st

RECURSIVE FrameLoop(_, _)
FrameLoop(msg, st) ==
    IF st.i < Len(msg) THEN FrameLoop(msg, FrameLoopBlock(msg, st, 32)) ELSE st

makeFramesNoSpaces(msg) == FrameLoop(msg, FrameLoopInit).frames

---------------------------------------------------------------------------
(* More strings *)

\* the whitespace String.prototype.trim removes and /\s/ matches (below U+0100)
IsSpace(c) == c \in {9, 10, 11, 12, 13, 32, 160}

RECURSIVE TrimLeft(_)
TrimLeft(s) == IF s # <<>> /\ IsSpace(Head(s)) THEN TrimLeft(Tail(s)) ELSE s

RECURSIVE TrimRight(_)
TrimRight(s) ==
    IF s # <<>> /\ IsSpace(s[Len(s)]) THEN TrimRight(SubSeq(s, 1, Len(s) - 1)) ELSE s

\* String.prototype.trim
Trim(s) == TrimRight(TrimLeft(s))

\* /\s/.test(s)
HasSpace(s) == \E j \in 1..Len(s) : IsSpace(s[j])

\* String.prototype.startsWith
StartsWith(s, p) == Len(s) >= Len(p) /\ SubSeq(s, 1, Len(p)) = p

\* position (1-based) of the first occurrence of c in s at or after j, 0 when absent
RECURSIVE IndexFrom(_, _, _)
IndexFrom(s, c, j) ==
    IF j > Len(s) THEN 0 ELSE IF s[j] = c THEN j ELSE IndexFrom(s, c, j + 1)

STR_ECHO == <<69, 67, 72, 79, 58>>              \* "ECHO:"
STR_ECHO_SP == <<69, 67, 72, 79, 58, 32>>       \* "ECHO: "
STR_HELLO == <<72, 69, 76, 76, 79>>             \* "HELLO"
STR_SEQ0 == <<CH_ZERO, CH_BAR>>                 \* "0|"

---------------------------------------------------------------------------
(* The host program: src/script.js.  A handler is a composition of the      *)
(* operators below over a record h of the module state; the fields ret,    *)
(* log, out, signal and gtag start empty in every handler.                 *)

NoSignal == [kind |-> "none", msg |-> ""]
NoTag == [s |-> 0, k |-> 0]

Host ==
    [isConnected |-> isConnected, writeChar |-> writeChar, notifyChar |-> notifyChar,
     rxBuffer |-> rxBuffer, sendInProgress |-> sendInProgress,
     awaitingPayload |-> awaitingPayload, awaitingResolve |-> awaitingResolve,
     awaitingReject |-> awaitingReject, awaitingTimer |-> awaitingTimer,
     frames |-> frames, k |-> k, rawBytes |-> rawBytes, ret |-> <<>>, log |-> <<>>,
     handed |-> <<>>,
     helloTimers |-> helloTimers, connPc |-> connPc, toHost |-> toHost,
     sendNo |-> sendNo, orphaned |-> orphaned, tags |-> tags,
     \* the history of a send is kept until the handler after its return
     written |-> IF sendInProgress THEN written ELSE <<>>,
     acount |-> IF sendInProgress THEN acount ELSE 0,
     delivered |-> IF sendInProgress THEN delivered ELSE 0,
     dirty |-> sendInProgress /\ dirty,
     late |-> sendInProgress /\ late,
     out |-> <<>>,          \* the writeValue calls of this handler, each with the write it is
     signal |-> NoSignal,   \* how this handler settled the promise the send awaits
     gtag |-> NoTag]        \* which frame write the next writeValue is (NoTag: none)

\* addLogLine(text, 'error')
logError(h, text) == [h EXCEPT !.log = Append(@, text)]

\* setConnectionStatus(connected)
setConnectionStatus(h, connected) == [h EXCEPT !.isConnected = connected]

cleanupBle(h) ==
    [h EXCEPT !.writeChar = "null", !.notifyChar = "null", !.rxBuffer = <<>>]

\* the promise of waitForAck settles once: a later resolve or reject is ignored
settle(h, kind, msg) ==
    IF h.signal.kind = "none" THEN [h EXCEPT !.signal = [kind |-> kind, msg |-> msg]] ELSE h

sendMessageDirect(h, message) ==
    IF ~h.isConnected \/ h.writeChar = "null"
    THEN logError(h, "Not connected")
    ELSE [h EXCEPT !.out = Append(@, [bytes |-> encode(message \o <<CH_LF>>), tag |-> h.gtag])]

abortPendingAck(h, reason) ==
    LET h1 == [h EXCEPT !.awaitingTimer = "null"]
        h2 == IF h1.awaitingReject # "null"
              THEN settle([h1 EXCEPT !.awaitingReject = "null", !.awaitingResolve = "null",
                                     !.awaitingPayload = <<>>],
                          "reject", reason)
              ELSE h1
    IN  [h2 EXCEPT !.awaitingReject = "null", !.awaitingResolve = "null",
                   !.awaitingPayload = <<>>]

waitForAck(h, payload) ==
    [h EXCEPT !.orphaned = @ \/ h.awaitingResolve # "null" \/ h.awaitingTimer # "null",
              !.awaitingPayload = <<payload>>,
              !.awaitingResolve = "fn",
              !.awaitingReject = "fn",
              !.awaitingTimer = "timer"]

\* a bug: the timer callback clears the slot and forgets to reject
ackTimerCallbackNoReject(h) ==
    [h EXCEPT !.awaitingTimer = "null", !.awaitingPayload = <<>>,
              !.awaitingResolve = "null", !.awaitingReject = "null"]

\* the callback of the setTimeout of waitForAck
ackTimerCallback(h) ==
    settle([h EXCEPT !.awaitingTimer = "null", !.awaitingPayload = <<>>,
                     !.awaitingResolve = "null", !.awaitingReject = "null"],
           "reject", "ACK timeout")

\* a bug: any echoed line resolves the pending wait
tryResolveAckAnyEcho(h, echoedPayload, tag) ==
    IF h.awaitingResolve = "null" \/ h.awaitingPayload = <<>> THEN h
    ELSE settle([h EXCEPT !.awaitingTimer = "null", !.awaitingResolve = "null",
                          !.awaitingReject = "null", !.awaitingPayload = <<>>,
                          !.dirty = @ \/ tag # [s |-> h.sendNo, k |-> h.k],
                          !.late = @ \/ (tag # NoTag /\ tag # [s |-> h.sendNo, k |-> h.k])],
                "resolve", "")

\* tag: the write the echoed line answers (history only)
tryResolveAck(h, echoedPayload, tag) ==
    IF h.awaitingResolve = "null" \/ h.awaitingPayload = <<>> THEN h
    ELSE IF <<echoedPayload>> = h.awaitingPayload
    THEN settle([h EXCEPT !.awaitingTimer = "null", !.awaitingResolve = "null",
                          !.awaitingReject = "null", !.awaitingPayload = <<>>,
                          !.dirty = @ \/ tag # [s |-> h.sendNo, k |-> h.k],
                          !.late = @ \/ (tag # NoTag /\ tag # [s |-> h.sendNo, k |-> h.k])],
                "resolve", "")
    ELSE h

\* the while loop of handleIncomingData: one complete line per iteration
RECURSIVE rxLineLoop(_)
rxLineLoop(h) ==
    LET nl == IndexFrom(h.rxBuffer, CH_LF, 1) IN
    IF nl = 0 THEN h
    ELSE
        LET rawLine == SubSeq(h.rxBuffer, 1, nl - 1)
            line == Trim(rawLine)
            tag == IF h.tags = <<>> THEN NoTag ELSE Head(h.tags)
            h1 == [h EXCEPT !.rxBuffer = SubSeq(@, nl + 1, Len(@)),
                            !.tags = IF @ = <<>> THEN @ ELSE Tail(@)]
        IN  IF line = <<>> THEN rxLineLoop(h1)
            ELSE IF StartsWith(line, STR_ECHO)
            THEN LET echoedPayload == IF StartsWith(line, STR_ECHO_SP)
                                      THEN SubSeq(line, 7, Len(line))
                                      ELSE SubSeq(line, 6, Len(line))
                 IN  rxLineLoop(tryResolveAck([h1 EXCEPT !.handed = Append(@, echoedPayload)],
                                              echoedPayload, tag))
            ELSE rxLineLoop(h1)

\* a bug: the notification replaces the buffer, the retained partial line is lost
handleIncomingDataNoBuffer(h, value) ==
    LET incoming == SelectSeq(value, LAMBDA b : b # CH_CR)
    IN  rxLineLoop([h EXCEPT !.rxBuffer = incoming])

\* value: the bytes of one notification
handleIncomingData(h, value) ==
    LET incoming == SelectSeq(value, LAMBDA b : b # CH_CR)
    IN  rxLineLoop([h EXCEPT !.rxBuffer = @ \o incoming])

\* the finally block of sendChunkedSeqStopAndWait; its locals end with it
sendFinally(h) ==
    [h EXCEPT !.sendInProgress = FALSE, !.awaitingPayload = <<>>,
              !.awaitingResolve = "null", !.awaitingReject = "null",
              !.awaitingTimer = "null",
              !.frames = <<>>, !.k = 0, !.rawBytes = 0]

\* a bug: the loop does not wait for the acknowledgment before the next frame
sendLoopNoWait(h) ==
    IF h.k < Len(h.frames)
    THEN LET payload == h.frames[h.k + 1].payload
             h1 == sendMessageDirect([h EXCEPT !.gtag = [s |-> h.sendNo, k |-> h.k]], payload)
             h2 == [h1 EXCEPT !.gtag = NoTag,
                              !.written = IF Len(h1.out) > Len(h.out)
                                          THEN Append(@, payload) ELSE @]
         IN  IF h.k + 1 < Len(h.frames)
             THEN LET payload2 == h.frames[h.k + 2].payload
                      h3 == sendMessageDirect(
                                [h2 EXCEPT !.gtag = [s |-> h.sendNo, k |-> h.k + 1]], payload2)
                  IN  waitForAck([h3 EXCEPT !.gtag = NoTag, !.k = @ + 1,
                                            !.written = IF Len(h3.out) > Len(h2.out)
                                                        THEN Append(@, payload2) ELSE @],
                                 payload2)
             ELSE waitForAck(h2, payload)
    ELSE sendFinally([h EXCEPT !.ret = <<[ok |-> TRUE, bytes |-> h.rawBytes,
                                          frames |-> Len(h.frames)]>>])

\* the for loop of sendChunkedSeqStopAndWait from index k up to its next await,
\* or to the return after the last frame
sendLoop(h) ==
    IF h.k < Len(h.frames)
    THEN LET payload == h.frames[h.k + 1].payload
             h1 == sendMessageDirect([h EXCEPT !.gtag = [s |-> h.sendNo, k |-> h.k]], payload)
             h2 == [h1 EXCEPT !.gtag = NoTag,
                              !.written = IF Len(h1.out) > Len(h.out)
                                          THEN Append(@, payload) ELSE @]
         IN  waitForAck(h2, payload)
    ELSE sendFinally([h EXCEPT !.ret = <<[ok |-> TRUE, bytes |-> h.rawBytes,
                                          frames |-> Len(h.frames)]>>])

\* the catch block of sendChunkedSeqStopAndWait
sendCatch(h, msg) ==
    [logError(h, "Chunked send failed: " \o msg)
        EXCEPT !.ret = <<[ok |-> FALSE, bytes |-> h.rawBytes, frames |-> Len(h.frames)]>>]

\* a bug: after a failed wait the loop goes on with the next frame
runMicrotasksGoOn(h) ==
    IF h.signal.kind = "none" \/ ~h.sendInProgress THEN [h EXCEPT !.signal = NoSignal]
    ELSE IF h.signal.kind = "resolve"
    THEN sendLoop([h EXCEPT !.signal = NoSignal, !.k = @ + 1, !.acount = @ + 1])
    ELSE sendLoop([h EXCEPT !.signal = NoSignal, !.k = @ + 1])

\* the microtasks that follow a handler: the suspended send resumes when its
\* promise was settled
runMicrotasks(h) ==
    IF h.signal.kind = "none" \/ ~h.sendInProgress THEN [h EXCEPT !.signal = NoSignal]
    ELSE IF h.signal.kind = "resolve"
    THEN sendLoop([h EXCEPT !.signal = NoSignal, !.k = @ + 1, !.acount = @ + 1])
    ELSE sendFinally(sendCatch([h EXCEPT !.signal = NoSignal], h.signal.msg))

NotSent == <<[ok |-> FALSE, bytes |-> 0, frames |-> 0]>>

\* a bug: no check of sendInProgress
sendChunkedSeqStopAndWaitNoBusy(h, fullMessage) ==
    IF ~h.isConnected \/ h.writeChar = "null"
    THEN [logError(h, "Not connected") EXCEPT !.ret = NotSent]
    ELSE sendLoop([h EXCEPT !.sendInProgress = TRUE,
                            !.rawBytes = Len(encode(fullMessage)),
                            !.frames = makeFramesNoSpaces(fullMessage),
                            !.k = 0,
                            !.sendNo = @ + 1, !.written = <<>>, !.acount = 0,
                            !.delivered = 0, !.dirty = FALSE, !.late = FALSE])

\* sendChunkedSeqStopAndWait up to its first await
sendChunkedSeqStopAndWait(h, fullMessage) ==
    IF ~h.isConnected \/ h.writeChar = "null"
    THEN [logError(h, "Not connected") EXCEPT !.ret = NotSent]
    ELSE IF h.sendInProgress
    THEN [logError(h, "Send already in progress") EXCEPT !.ret = NotSent]
    ELSE sendLoop([h EXCEPT !.sendInProgress = TRUE,
                            !.rawBytes = Len(encode(fullMessage)),
                            !.frames = makeFramesNoSpaces(fullMessage),
                            !.k = 0,
                            !.sendNo = @ + 1, !.written = <<>>, !.acount = 0,
                            !.delivered = 0, !.dirty = FALSE, !.late = FALSE])

TEST_MAX == 1000

\* the loop of makeTestString0to1000 with upper limit n
makeTestString(n) == Concat([j \in 1..(n + 1) |-> String(j - 1)])

makeTestString0to1000 == makeTestString(TEST_MAX)

\* test: the string makeTestString0to1000() returned
runThroughputTestWith(h, test) ==
    IF ~h.isConnected THEN logError(h, "Not connected")
    ELSE IF h.sendInProgress THEN logError(h, "Send in progress; try again later")
    ELSE sendChunkedSeqStopAndWait(h, test)

\* a bug: a text of exactly seq0MaxData characters is segmented
sendMessageStrict(h, message) ==
    IF message = <<>> \/ Trim(message) = <<>> THEN logError(h, "Message is empty")
    ELSE LET trimmed == Trim(message) IN
         IF HasSpace(trimmed) THEN logError(h, "Refused: message contains whitespace")
         ELSE LET seq0Payload == STR_SEQ0 \o trimmed
                  seq0MaxData == maxDataLenForSeq(0)
              IN  IF Len(trimmed) < seq0MaxData
                  THEN sendMessageDirect(h, seq0Payload)
                  ELSE sendChunkedSeqStopAndWait(h, trimmed)

\* a bug: whitespace is refused on the segmented path only
sendMessageLateCheck(h, message) ==
    IF message = <<>> \/ Trim(message) = <<>> THEN logError(h, "Message is empty")
    ELSE LET trimmed == Trim(message)
             seq0Payload == STR_SEQ0 \o trimmed
             seq0MaxData == maxDataLenForSeq(0)
         IN  IF Len(trimmed) <= seq0MaxData
             THEN sendMessageDirect(h, seq0Payload)
             ELSE IF HasSpace(trimmed)
             THEN logError(h, "Refused: message contains whitespace")
             ELSE sendChunkedSeqStopAndWait(h, trimmed)

\* message: the text of the input field
sendMessage(h, message) ==
    IF message = <<>> \/ Trim(message) = <<>> THEN logError(h, "Message is empty")
    ELSE LET trimmed == Trim(message) IN
         IF HasSpace(trimmed) THEN logError(h, "Refused: message contains whitespace")
         ELSE LET seq0Payload == STR_SEQ0 \o trimmed
                  seq0MaxData == maxDataLenForSeq(0)
              IN  IF Len(trimmed) <= seq0MaxData
                  THEN sendMessageDirect(h, seq0Payload)
                  ELSE sendChunkedSeqStopAndWait(h, trimmed)

\* a bug: the listener forgets to abort the pending acknowledgment
onGattServerDisconnectedNoAbort(h) ==
    cleanupBle(setConnectionStatus(logError(h, "Device disconnected"), FALSE))

\* the gattserverdisconnected listener
onGattServerDisconnected(h) ==
    abortPendingAck(cleanupBle(setConnectionStatus(logError(h, "Device disconnected"), FALSE)),
                    "Disconnected")

\* the finally block of disconnect()
disconnectFinally(h) ==
    abortPendingAck(cleanupBle(setConnectionStatus(h, FALSE)), "Disconnected")

\* the catch block of connect()
connectCatch(h) ==
    abortPendingAck(cleanupBle(setConnectionStatus(logError(h, "Connection failed"), FALSE)),
                    "Connection failed")

---------------------------------------------------------------------------
(* The peer: the echo firmware of src/unnamed/part_001 *)

\* onUartDataReceived for the bytes of one write: the line read until the
\* newline is trimmed and written back, prefixed, as a line (CR LF ended)
peerEcho(bytes) ==
    LET nl == IndexFrom(bytes, CH_LF, 1)
        message == SubSeq(bytes, 1, IF nl = 0 THEN Len(bytes) ELSE nl - 1)
        clean == Trim(message)
    IN  STR_ECHO_SP \o clean \o <<CH_CR, CH_LF>>

---------------------------------------------------------------------------
(* Bounds of the protocol model *)

MaxSends == 2       \* segmented sends started in one behaviour
MaxHello == 1       \* HELLO timers pending at once
MaxEchoes == 1      \* echo lines on their way to the host at once (a further write is lost)
NotifyLen == 20     \* bytes of one notification
MaxMsgLen == 35     \* longest message typed into the input field
ProbeMax == 13      \* the throughput test counts 0..ProbeMax

TextOf(n) == [j \in 1..n |-> 97]

\* what the user types: a short and a long text
Inputs == {TextOf(2), TextOf(MaxMsgLen)}

---------------------------------------------------------------------------
(* Events *)

\* what the link does with the writes of a handler
Fates(h) ==
    IF h.out = <<>> THEN {"none"}
    ELSE IF Len(h.tags) + Len(h.out) <= MaxEchoes THEN {"lost", "delivered"}
    ELSE {"lost"}

IsOwnFrame(h, w) == w.tag # NoTag /\ w.tag.s = h.sendNo

\* the state after a handler that left the module state h, its writes having
\* met the given fate
CommitHost(h, fate) ==
    LET got == fate = "delivered"
        echoes == IF got THEN Concat([j \in 1..Len(h.out) |-> peerEcho(h.out[j].bytes)])
                  ELSE <<>>
        newTags == IF got THEN [j \in 1..Len(h.out) |-> h.out[j].tag] ELSE <<>>
        own == IF got THEN Cardinality({j \in 1..Len(h.out) : IsOwnFrame(h, h.out[j])}) ELSE 0
    IN  /\ isConnected' = h.isConnected
        /\ writeChar' = h.writeChar
        /\ notifyChar' = h.notifyChar
        /\ rxBuffer' = h.rxBuffer
        /\ sendInProgress' = h.sendInProgress
        /\ awaitingPayload' = h.awaitingPayload
        /\ awaitingResolve' = h.awaitingResolve
        /\ awaitingReject' = h.awaitingReject
        /\ awaitingTimer' = h.awaitingTimer
        /\ frames' = h.frames
        /\ k' = h.k
        /\ rawBytes' = h.rawBytes
        /\ ret' = h.ret
        /\ log' = h.log
        /\ handed' = h.handed
        /\ wire' = [j \in 1..Len(h.out) |-> h.out[j].bytes]
        /\ helloTimers' = h.helloTimers
        /\ connPc' = h.connPc
        /\ toHost' = h.toHost \o echoes
        /\ sendNo' = h.sendNo
        /\ written' = h.written
        /\ acount' = h.acount
        /\ delivered' = h.delivered + own
        /\ dirty' = h.dirty
        /\ late' = h.late
        /\ orphaned' = h.orphaned
        /\ tags' = h.tags \o newTags

Commit(h, fate) == CommitHost(h, fate) /\ UNCHANGED <<fvars, rvars>>

\* a handler followed by its microtasks and by the link's treatment of its writes
\* (h0: the state the handler left, h1: the state after the microtasks)
Handler(h) ==
    \E h0 \in {h} : \E h1 \in {runMicrotasks(h0)} : \E fate \in Fates(h1) : Commit(h1, fate)

\* the link is gone: nothing in flight survives
linkDown(h) == [h EXCEPT !.toHost = <<>>, !.tags = <<>>]

HostInit ==
    /\ isConnected = FALSE
    /\ writeChar = "null"
    /\ notifyChar = "null"
    /\ rxBuffer = <<>>
    /\ sendInProgress = FALSE
    /\ awaitingPayload = <<>>
    /\ awaitingResolve = "null"
    /\ awaitingReject = "null"
    /\ awaitingTimer = "null"
    /\ frames = <<>>
    /\ k = 0
    /\ rawBytes = 0
    /\ ret = <<>>
    /\ log = <<>>
    /\ handed = <<>>
    /\ wire = <<>>
    /\ helloTimers = 0
    /\ connPc = "idle"
    /\ toHost = <<>>
    /\ sendNo = 0
    /\ written = <<>>
    /\ acount = 0
    /\ delivered = 0
    /\ dirty = FALSE
    /\ late = FALSE
    /\ orphaned = FALSE
    /\ tags = <<>>

\* click on Connect: connect() up to its awaits
ConnectClick ==
    /\ connPc = "idle"
    /\ ~isConnected
    /\ Handler([Host EXCEPT !.connPc = "connecting"])

\* connect() after its awaits: the characteristics are found, the HELLO timer is set
ConnectFinish ==
    /\ connPc = "connecting"
    /\ helloTimers < MaxHello
    /\ Handler(setConnectionStatus(
                   [linkDown(Host) EXCEPT !.writeChar = "char", !.notifyChar = "char",
                                          !.rxBuffer = <<>>, !.helloTimers = @ + 1,
                                          !.connPc = "idle"],
                   TRUE))

\* connect() when one of its awaits throws
ConnectFail ==
    /\ connPc = "connecting"
    /\ Handler(connectCatch([Host EXCEPT !.connPc = "idle"]))

\* the HELLO timer fires
HelloFire ==
    /\ helloTimers > 0
    /\ Handler(sendMessageDirect([Host EXCEPT !.helloTimers = @ - 1], STR_HELLO))

\* click on Disconnect: disconnect() up to await stopNotifications()
DisconnectClick ==
    /\ connPc = "idle"
    /\ isConnected
    /\ Handler([Host EXCEPT !.connPc = "stopping"])

\* disconnect() after its await: gatt.disconnect() fires gattserverdisconnected
\* when the device is still connected, then the finally block runs
DisconnectFinish ==
    /\ connPc = "stopping"
    /\ LET h0 == [linkDown(Host) EXCEPT !.connPc = "idle"]
           h1 == IF h0.isConnected THEN onGattServerDisconnected(h0) ELSE h0
       IN  Handler(disconnectFinally(h1))

\* the peer goes away: gattserverdisconnected
PeerDisconnect ==
    /\ isConnected
    /\ Handler(onGattServerDisconnected(linkDown(Host)))

\* a notification brings the next bytes of the peer
Notify ==
    /\ isConnected
    /\ notifyChar = "char"
    /\ toHost # <<>>
    /\ LET n == Min(NotifyLen, Len(toHost))
       IN  Handler(handleIncomingData([Host EXCEPT !.toHost = SubSeq(@, n + 1, Len(@))],
                                      SubSeq(toHost, 1, n)))

\* the ack timer expires
AckTimeout ==
    /\ awaitingTimer = "timer"
    /\ Handler(ackTimerCallback(Host))

\* click on Send, or Enter in the input field
SendFrom(inputs) ==
    \E message \in inputs :
        LET h == sendMessage(Host, message)
        IN  h.sendNo <= MaxSends /\ Handler(h)

SendMessage == SendFrom(Inputs)

\* click on Test
\* click on Test; the test string counts up to ProbeMax in place of TEST_MAX
RunThroughputTest ==
    LET h == runThroughputTestWith(Host, makeTestString(ProbeMax))
    IN  h.sendNo <= MaxSends /\ Handler(h)

Next ==
    \/ ConnectClick
    \/ ConnectFinish
    \/ ConnectFail
    \/ HelloFire
    \/ DisconnectClick
    \/ DisconnectFinish
    \/ PeerDisconnect
    \/ Notify
    \/ AckTimeout
    \/ SendMessage
    \/ RunThroughputTest

RxInit == rxAll = <<>> /\ rxHanded = <<>>

Init == HostInit /\ RxInit /\ fmsg = <<>> /\ fframes = <<>> /\ fpc = "idle"

Spec == Init /\ [][Next]_vars

\* the same, with the one thing the host's scheduling guarantees by itself: a
\* timer that stays armed fires (setTimeout of waitForAck, 3500 ms)
SpecTimer == Spec /\ WF_vars(AckTimeout)

---------------------------------------------------------------------------
(* What a click on Send does, for a wide set of texts: SpecSend.  The      *)
(* session connects and texts are sent; no echo arrives and no timer fires. *)

AccentOf(n) == [j \in 1..n |-> 233]

\* texts of every length 0..MaxTypedLen: plain, of two-byte characters, with a
\* space inside, with spaces around
SendInputs ==
    {TextOf(n) : n \in 0..MaxTypedLen}
        \cup {AccentOf(n) : n \in 1..MaxTypedLen}
        \cup {<<97, 32>> \o TextOf(n) : n \in 1..MaxTypedLen}
        \cup {<<32>> \o TextOf(n) \o <<32>> : n \in 0..MaxTypedLen}

\* click on Send with the given text; the write, if any, is lost
SendStep(message) ==
    LET h == runMicrotasks(sendMessage(Host, message))
    IN  h.sendNo <= MaxSends /\ Commit(h, "lost")

SendWide == \E message \in SendInputs : SendStep(message)

SendNext ==
    \/ ConnectClick
    \/ ConnectFinish
    \/ HelloFire
    \/ SendWide

SpecSend == Init /\ [][SendNext]_vars

---------------------------------------------------------------------------
(* makeFramesNoSpaces applied to a bounded set of messages: SpecFrames *)

\* whitespace-free test messages: letters by position, and a mix with a
\* two-byte character, the separator and digits
LetterMsg(n) == [j \in 1..n |-> 97 + (j % 26)]
MixedMsg(n) == [j \in 1..n |-> <<233, CH_BAR, CH_ZERO, 97, 49, 98, 50>>[(j % 7) + 1]]

FrameInputs ==
    {LetterMsg(n) : n \in 0..MaxSegLen} \cup {MixedMsg(n) : n \in 0..MaxSegLen}
        \cup {LetterMsg(LongLen), makeTestString0to1000}

FramesInit ==
    /\ HostInit
    /\ RxInit
    /\ fmsg \in FrameInputs
    /\ fframes = <<>>
    /\ fpc = "call"

\* frames = makeFramesNoSpaces(fullMessage)
CallMakeFrames ==
    /\ fpc = "call"
    /\ fframes' = makeFramesNoSpaces(fmsg)
    /\ fpc' = "done"
    /\ UNCHANGED <<fmsg, hvars, rvars>>

FramesNext == CallMakeFrames

SpecFrames == FramesInit /\ [][FramesNext]_vars

---------------------------------------------------------------------------
(* handleIncomingData over whole connections: SpecRx.  The peer writes a     *)
(* stream of lines; the link brings it in notifications of any size.         *)

STR_CONNECTED == <<67, 79, 78, 78, 69, 67, 84, 69, 68>>     \* "CONNECTED"
STR_0AB == <<CH_ZERO, CH_BAR, 97, 98>>                      \* "0|ab"
STR_1C == <<49, CH_BAR, 99>>                                \* "1|c"

\* bluetooth.uartWriteLine(line) of the firmware
uartWriteLine(line) == line \o <<CH_CR, CH_LF>>

\* what a peer writes in one connection: echoes of the firmware of part_001,
\* the second cut off before its end; the greeting and an untrimmed echo of the
\* firmware of part_000; echoes without the space after the prefix, an empty
\* line between them, ended by a bare newline
Streams ==
    { peerEcho(encode(STR_0AB \o <<CH_LF>>))
          \o SubSeq(peerEcho(encode(STR_1C \o <<CH_LF>>)), 1, 8),
      uartWriteLine(STR_CONNECTED) \o uartWriteLine(STR_ECHO_SP \o <<32>> \o STR_0AB),
      STR_ECHO \o STR_0AB \o <<CH_LF, CH_LF>> \o STR_ECHO \o <<CH_LF>> }

\* connect() from startNotifications on, with the stream the peer will write
RxConnect ==
    /\ ~isConnected
    /\ helloTimers < MaxHello
    /\ \E stream \in Streams :
          CommitHost(setConnectionStatus(
                         [Host EXCEPT !.writeChar = "char", !.notifyChar = "char",
                                      !.rxBuffer = <<>>, !.helloTimers = @ + 1,
                                      !.toHost = stream, !.tags = <<>>],
                         TRUE),
                     "none")
    /\ rxAll' = <<>>
    /\ rxHanded' = <<>>
    /\ UNCHANGED fvars

\* a notification brings the next n bytes of the peer, for any n
RxNotify ==
    /\ isConnected
    /\ notifyChar = "char"
    /\ \E n \in 1..Min(NotifyLen, Len(toHost)) :
          LET value == SubSeq(toHost, 1, n)
              h == runMicrotasks(
                       handleIncomingData([Host EXCEPT !.toHost = SubSeq(@, n + 1, Len(@))],
                                          value))
          IN  /\ CommitHost(h, "none")
              /\ rxAll' = rxAll \o value
              /\ rxHanded' = rxHanded \o h.handed
    /\ UNCHANGED fvars

\* the HELLO timer fires; the write is lost
RxHello ==
    /\ helloTimers > 0
    /\ CommitHost(runMicrotasks(sendMessageDirect([Host EXCEPT !.helloTimers = @ - 1],
                                                  STR_HELLO)),
                  "lost")
    /\ UNCHANGED <<fvars, rvars>>

RxNext ==
    \/ RxConnect
    \/ RxNotify
    \/ RxHello
    \/ PeerDisconnect

SpecRx == Init /\ [][RxNext]_vars

---------------------------------------------------------------------------
(* A link that loses nothing and a peer that echoes at once: SpecEcho.  Every *)
(* write reaches the peer and its echo is on its way before anything else     *)
(* happens; the ack timer fires only when every byte the peer wrote has been  *)
(* notified; nobody disconnects.                                              *)

\* what the user types: the texts of Inputs, and a text of 18 characters whose
\* last one is a two-byte character
EchoInputs == Inputs \cup {TextOf(17) \o <<233>>}

\* a handler followed by its microtasks; its writes are delivered and echoed
EchoHandler(h) ==
    LET h1 == runMicrotasks(h)
    IN  Len(h1.tags) + Len(h1.out) <= MaxEchoes /\ Commit(h1, "delivered")

EchoSend ==
    \E message \in EchoInputs :
        LET h == sendMessage(Host, message)
        IN  h.sendNo <= MaxSends /\ EchoHandler(h)

EchoHello ==
    /\ helloTimers > 0
    /\ EchoHandler(sendMessageDirect([Host EXCEPT !.helloTimers = @ - 1], STR_HELLO))

EchoNotify ==
    /\ isConnected
    /\ notifyChar = "char"
    /\ toHost # <<>>
    /\ LET n == Min(NotifyLen, Len(toHost))
       IN  EchoHandler(handleIncomingData([Host EXCEPT !.toHost = SubSeq(@, n + 1, Len(@))],
                                          SubSeq(toHost, 1, n)))

\* the ack timer expires, after the echo of everything written has arrived
EchoTimeout ==
    /\ awaitingTimer = "timer"
    /\ toHost = <<>>
    /\ EchoHandler(ackTimerCallback(Host))

EchoNext ==
    \/ ConnectClick
    \/ ConnectFinish
    \/ EchoHello
    \/ EchoSend
    \/ EchoNotify
    \/ EchoTimeout

SpecEcho == Init /\ [][EchoNext]_vars

---------------------------------------------------------------------------
(* Properties of segmentation (SpecFrames) *)

\* a frame payload read back: the text before and after the first separator
HeaderOf(payload) == SubSeq(payload, 1, IndexFrom(payload, CH_BAR, 1) - 1)
DataOf(payload) == SubSeq(payload, IndexFrom(payload, CH_BAR, 1) + 1, Len(payload))

\* the bytes of a line as sendMessageDirect writes it
WireBytes(payload) == encode(payload \o <<CH_LF>>)

ProducedData == [j \in 1..Len(fframes) |-> DataOf(fframes[j].payload)]

\* C7 (as claimed): every frame produced by makeFramesNoSpaces and every
\* line passed to writeValue has at most BLE_MAX_WRITE_BYTES bytes on the wire.
C7_FrameBudget ==
    /\ \A j \in 1..Len(fframes) :
           Len(WireBytes(fframes[j].payload)) <= BLE_MAX_WRITE_BYTES
    /\ \A j \in 1..Len(wire) : Len(wire[j]) <= BLE_MAX_WRITE_BYTES

\* C8: when makeFramesNoSpaces returns, the data portions of its frames, joined
\* in order, are the message; every frame carries at least one character; the
\* empty message yields no frames.
C8_Reassembly ==
    fpc = "done" =>
        /\ Concat(ProducedData) = fmsg
        /\ \A j \in 1..Len(fframes) : Len(ProducedData[j]) >= 1
        /\ (fmsg = <<>> => fframes = <<>>)

C8_Witness ==
    /\ fpc = "done"
    /\ Len(fframes) >= 3
    /\ \E j \in 1..Len(fmsg) : fmsg[j] = CH_BAR

\* C9 (amended): the j-th frame produced (j = 1, 2, ...) carries seq
\* (j - 1) mod (MAX_SEQ + 1), written in decimal before the separator: the
\* 1,001st frame carries MAX_SEQ and the 1,002nd frame wraps to 0.
C9_SeqWraps ==
    fpc = "done" => \A j \in 1..Len(fframes) :
        /\ fframes[j].seq = (j - 1) % (MAX_SEQ + 1)
        /\ HeaderOf(fframes[j].payload) = String(fframes[j].seq)

C9_Witness ==
    /\ fpc = "done"
    /\ Len(fframes) >= MAX_SEQ + 2
    /\ fframes[MAX_SEQ + 1].seq = MAX_SEQ
    /\ fframes[MAX_SEQ + 2].seq = 0

\* C9 (as claimed): the 1,001st frame of a message that needs 1,001 or more
\* frames carries seq 0.
C9_AsClaimed ==
    fpc = "done" /\ Len(fframes) >= MAX_SEQ + 1 => fframes[MAX_SEQ + 1].seq = 0

---------------------------------------------------------------------------
(* Properties of the send path (SpecSend) *)

\* a text the whitespace check of sendMessage lets through unchanged
CleanText(m) == m # <<>> /\ ~HasSpace(m)

AckSlotClear ==
    /\ awaitingPayload = <<>>
    /\ awaitingResolve = "null"
    /\ awaitingReject = "null"
    /\ awaitingTimer = "null"

---------------------------------------------------------------------------
(* Properties of the protocol (Spec) *)

\* C1: while a segmented send is in flight it has written exactly its frames
\* 0..k, in that order, the waits of frames 0..k-1 have resolved successfully and
\* the one unresolved frame is frame k; a send never has more than one frame
\* written and unresolved, and a send that returned success wrote every frame.
C1_StopAndWait ==
    /\ Len(written) - acount <= 1
    /\ sendInProgress =>
          /\ k < Len(frames)
          /\ written = [j \in 1..(k + 1) |-> frames[j].payload]
          /\ acount = k
          /\ awaitingPayload = <<frames[k + 1].payload>>
    /\ (ret # <<>> /\ ret[1].ok) =>
          /\ Len(written) = ret[1].frames
          /\ acount = ret[1].frames

C1_Witness ==
    /\ sendInProgress
    /\ k = 2
    /\ Len(written) = 3

\* C2 (as claimed): when a segmented send returns success, the peer received
\* every frame of it and every wait was resolved by the echo of that frame's own
\* write.
C2_Reliable ==
    (ret # <<>> /\ ret[1].ok) => (delivered = ret[1].frames /\ ~dirty)

\* a click on Send with a text that needs segmenting, or a click on Test
SegmentedAttempt ==
    \/ RunThroughputTest
    \/ \E m \in Inputs :
          /\ Len(Trim(m)) > 17
          /\ LET h == sendMessage(Host, m) IN h.sendNo <= MaxSends /\ Handler(h)

\* C3: a segmented send or a test run issued while a segmented send is in
\* flight writes nothing, is refused with the busy message, and changes nothing
\* of the session, of the in-flight send or of the link.
C3_BusyRejected ==
    [][(sendInProgress /\ SegmentedAttempt) =>
          /\ wire' = <<>>
          /\ log' \in {<<"Send already in progress">>, <<"Send in progress; try again later">>}
          /\ ret' \in {NotSent, <<>>}
          /\ UNCHANGED <<isConnected, writeChar, notifyChar, rxBuffer, sendInProgress,
                         awaitingPayload, awaitingResolve, awaitingReject, awaitingTimer,
                         frames, k, rawBytes, helloTimers, connPc, toHost,
                         sendNo, written, acount, delivered, dirty, orphaned, tags>>]_vars

C3_Witness ==
    /\ sendInProgress
    /\ k = 1
    /\ awaitingTimer = "timer"
    /\ log = <<"Send already in progress">>
    /\ ret = NotSent

\* C4: when the ack timer expires the send returns a failure, logged as an ACK
\* timeout, no acknowledgment stays pending and the session is connected and
\* idle, which is all a further send needs to be accepted; and every send that
\* starts, starts at index 0 by writing the frame with seq 0.
C4_TimeoutThenIdle ==
    [][/\ AckTimeout =>
             /\ ret' = <<[ok |-> FALSE, bytes |-> rawBytes, frames |-> Len(frames)]>>
             /\ log' = <<"Chunked send failed: ACK timeout">>
             /\ AckSlotClear'
             /\ ~sendInProgress'
             /\ isConnected' /\ writeChar' = "char"
             /\ wire' = <<>>
       /\ (sendNo' # sendNo) =>
             /\ ~sendInProgress
             /\ sendInProgress'
             /\ k' = 0
             /\ frames'[1].seq = 0
             /\ StartsWith(frames'[1].payload, <<CH_ZERO, CH_BAR>>)
             /\ wire' = <<WireBytes(frames'[1].payload)>>]_vars

C4_Witness ==
    /\ log = <<"Chunked send failed: ACK timeout">>
    /\ ret # <<>> /\ ~ret[1].ok
    /\ acount = 1
    /\ ~sendInProgress

\* C5: a disconnect (the peer's, or the end of the user's) during a segmented
\* send makes the send return a failure logged as Disconnected, with the ack
\* timer cancelled, no acknowledgment pending, the receive buffer empty and the
\* session idle and disconnected, ready for a new connect.
C5_DisconnectAborts ==
    [][(sendInProgress /\ (PeerDisconnect \/ DisconnectFinish)) =>
          /\ ret' = <<[ok |-> FALSE, bytes |-> rawBytes, frames |-> Len(frames)]>>
          /\ log' # <<>> /\ log'[Len(log')] = "Chunked send failed: Disconnected"
          /\ AckSlotClear'
          /\ rxBuffer' = <<>>
          /\ ~sendInProgress'
          /\ ~isConnected'
          /\ wire' = <<>>]_vars

C5_Witness ==
    /\ log # <<>> /\ log[Len(log)] = "Chunked send failed: Disconnected"
    /\ ret # <<>> /\ ~ret[1].ok
    /\ ~sendInProgress
    /\ ~isConnected
    /\ connPc = "idle"
    /\ acount = 1

\* C6: waitForAck is never called while a waiter or a timer is armed, and an
\* acknowledgment is pending exactly while a segmented send is in flight.
C6_SingleFlight ==
    /\ ~orphaned
    /\ sendInProgress <=> awaitingResolve = "fn"

C6_Witness ==
    /\ sendNo = 2
    /\ sendInProgress
    /\ k = 1
    /\ awaitingResolve = "fn"

\* C12 (as claimed): the failure a segmented send returns after an ack timeout
\* or an abort carries the number of its frames that were resolved before the
\* failure.
C12_ResolvedCount ==
    (ret # <<>> /\ ~ret[1].ok /\ ret # NotSent) => ret[1].frames = acount

---------------------------------------------------------------------------
(* More properties of the send path (SpecSend) *)

\* a text that stays non-empty after trim() and still holds whitespace
SpacedText(m) == Trim(m) # <<>> /\ HasSpace(Trim(m))

SpacedInputs == {m \in SendInputs : SpacedText(m)}

UnspacedInputs == {m \in SendInputs : Trim(m) # <<>> /\ ~HasSpace(Trim(m))}

\* C13 (as claimed): in a connected idle session a text with whitespace inside
\* is refused exactly when it needs the segmented path: one short enough for a
\* single write is written, a longer one is refused with nothing written and no
\* send in flight.
C13_AsClaimed ==
    [][\A m \in SpacedInputs :
          (isConnected /\ ~sendInProgress /\ SendStep(m)) =>
              IF Len(Trim(m)) <= maxDataLenForSeq(0)
              THEN wire' # <<>> /\ log' = <<>>
              ELSE wire' = <<>> /\ ~sendInProgress' /\ AckSlotClear']_vars

\* C13 (amended): a text is refused for whitespace exactly when whitespace is
\* left inside it after trim(), whatever its length and whatever the session is
\* doing: nothing is written, no send starts and no acknowledgment is armed,
\* the session and any send in flight stay as they were.  Whitespace around
\* the text is trimmed and does not refuse it.
C13_WhitespaceRefused ==
    [][/\ \A m \in SpacedInputs :
             SendStep(m) =>
                 /\ log' = <<"Refused: message contains whitespace">>
                 /\ wire' = <<>>
                 /\ ret' = <<>>
                 /\ UNCHANGED <<isConnected, writeChar, notifyChar, rxBuffer,
                                sendInProgress, awaitingPayload, awaitingResolve,
                                awaitingReject, awaitingTimer, frames, k, rawBytes,
                                helloTimers, connPc, toHost, sendNo>>
       /\ \A m \in UnspacedInputs :
             (isConnected /\ ~sendInProgress /\ SendStep(m)) =>
                 /\ wire' # <<>>
                 /\ log' = <<>>]_vars

C13_Witness ==
    /\ isConnected
    /\ ~sendInProgress
    /\ log = <<"Refused: message contains whitespace">>
    /\ wire = <<>>
    /\ AckSlotClear

---------------------------------------------------------------------------
(* More properties of the protocol (Spec) *)

\* C14 (as claimed): a click on Send while a segmented send is in flight is
\* refused as busy whatever the length of the text: it writes nothing, so the
\* only writes during a send are the send's own frames, and it leaves the
\* pending acknowledgment and the send as they were.
C14_BusyBeforePath ==
    [][(sendInProgress /\ SendMessage) =>
          /\ wire' = <<>>
          /\ log' = <<"Send already in progress">>
          /\ UNCHANGED <<sendInProgress, awaitingPayload, awaitingResolve,
                         awaitingReject, awaitingTimer, frames, k, toHost>>]_vars

\* C15: the step in which a wait of a segmented send fails (ack timer, or abort
\* on a disconnect) writes nothing and ends the send: its frames are dropped and
\* what it had written stays what it was.  While no send is in flight only a
\* click on Send or Test, or the HELLO timer, writes; a send starts only by such
\* a click, as a new send.
C15_FailureIsFinal ==
    [][/\ (sendInProgress /\ (AckTimeout \/ PeerDisconnect \/ DisconnectFinish)) =>
             /\ wire' = <<>>
             /\ ~sendInProgress'
             /\ frames' = <<>>
             /\ AckSlotClear'
             /\ written' = written
             /\ ret' # <<>> /\ ~ret'[1].ok
       /\ (~sendInProgress /\ wire' # <<>>) =>
             (SendMessage \/ RunThroughputTest \/ HelloFire)
       /\ (~sendInProgress /\ sendInProgress') =>
             /\ SendMessage \/ RunThroughputTest
             /\ sendNo' = sendNo + 1
             /\ k' = 0]_vars

C15_Witness ==
    /\ ~sendInProgress
    /\ ret # <<>> /\ ~ret[1].ok
    /\ ret[1].frames = 3
    /\ Len(written) = 2
    /\ acount = 1
    /\ wire = <<>>
    /\ frames = <<>>

\* no payload the notification handed to tryResolveAck is the awaited one
NoneAwaited(payloads) ==
    \/ awaitingPayload = <<>>
    \/ \A j \in 1..Len(payloads) : payloads[j] # awaitingPayload[1]

\* C16: a notification none of whose lines echoes the awaited payload, or one
\* that arrives while nothing is awaited, leaves the expected payload, the
\* waiter and the timer as they were; the send, if any, stays at the same frame
\* and does not return, and nothing is written.
C16_StrayLineInert ==
    [][(Notify /\ NoneAwaited(handed')) =>
          /\ UNCHANGED <<awaitingPayload, awaitingResolve, awaitingReject, awaitingTimer,
                         sendInProgress, frames, k, rawBytes, sendNo>>
          /\ sendInProgress => UNCHANGED <<written, acount>>
          /\ ret' = <<>>
          /\ wire' = <<>>
          /\ log' = <<>>]_vars

C16_Witness ==
    /\ sendInProgress
    /\ k = 0
    /\ awaitingTimer = "timer"
    /\ awaitingPayload = <<frames[1].payload>>
    /\ handed = <<STR_HELLO>>

\* C17 (as claimed): every armed wait is signalled once, by the first of its
\* echo, its timer and an abort, and what arrives later for that frame is
\* without effect: the waits of a send resolve no more often than frames were
\* written, nothing stays armed after a send, and no wait is ever resolved by
\* the echo of a frame that was written for an earlier wait.
C17_SignalledOnce ==
    /\ acount <= Len(written)
    /\ (~sendInProgress => AckSlotClear)
    /\ ~late

AckSlotSet ==
    /\ awaitingPayload # <<>>
    /\ awaitingResolve = "fn"
    /\ awaitingReject = "fn"
    /\ awaitingTimer = "timer"

\* C20: between two events awaitingPayload, awaitingResolve, awaitingReject and
\* awaitingTimer are all set or all clear, and they are set only while a
\* segmented send is in flight, awaiting the frame at its loop index, over a
\* connected link.
C20_AckSlotCoherent ==
    /\ AckSlotSet \/ AckSlotClear
    /\ AckSlotSet =>
          /\ sendInProgress
          /\ isConnected
          /\ writeChar = "char"
          /\ awaitingPayload = <<frames[k + 1].payload>>

C20_Witness ==
    /\ AckSlotSet
    /\ connPc = "stopping"
    /\ k = 1

---------------------------------------------------------------------------
(* Properties of the receive path (SpecRx) *)

\* a byte stream read as a whole: without its carriage returns, its complete
\* lines and what follows the last newline
NoCR(bytes) == SelectSeq(bytes, LAMBDA b : b # CH_CR)

RECURSIVE SplitLines(_)
SplitLines(text) ==
    LET nl == IndexFrom(text, CH_LF, 1)
    IN  IF nl = 0 THEN <<>>
        ELSE <<SubSeq(text, 1, nl - 1)>> \o SplitLines(SubSeq(text, nl + 1, Len(text)))

RECURSIVE PartialOf(_)
PartialOf(text) ==
    LET nl == IndexFrom(text, CH_LF, 1)
    IN  IF nl = 0 THEN text ELSE PartialOf(SubSeq(text, nl + 1, Len(text)))

\* the payload a complete line echoes, as a sequence of none or one
EchoOfLine(rawLine) ==
    LET line == Trim(rawLine)
    IN  IF StartsWith(line, STR_ECHO_SP) THEN <<SubSeq(line, 7, Len(line))>>
        ELSE IF StartsWith(line, STR_ECHO) THEN <<SubSeq(line, 6, Len(line))>>
        ELSE <<>>

EchoedOf(bytes) ==
    LET ls == SplitLines(NoCR(bytes))
    IN  Concat([j \in 1..Len(ls) |-> EchoOfLine(ls[j])])

\* C18: however the bytes of a connection were split into notifications, the
\* payloads passed to tryResolveAck so far are those of the complete lines of
\* the bytes received so far, in order; the text after the last newline waits
\* in rxBuffer and is passed to nothing; after a disconnect rxBuffer is empty,
\* and in a new connection only that connection's bytes count.
C18_LineBuffered ==
    /\ rxHanded = EchoedOf(rxAll)
    /\ isConnected => rxBuffer = PartialOf(NoCR(rxAll))
    /\ ~isConnected => rxBuffer = <<>>

C18_Witness ==
    /\ isConnected
    /\ toHost = <<>>
    /\ rxHanded = <<STR_0AB>>
    /\ rxBuffer = <<69, 67, 72, 79, 58, 32, 49, CH_BAR>>

---------------------------------------------------------------------------
(* Properties over a loss-free link with an echoing peer (SpecEcho) *)

\* C11 (as claimed): with nothing lost, every line echoed in time and no
\* disconnect, a segmented send that returns, returns success, with every frame
\* written and resolved by its own echo, the frame count of the segmentation
\* and the byte count of the message.
C11_EchoedSendSucceeds ==
    (ret # <<>> /\ ret # NotSent) =>
        /\ ret[1].ok
        /\ ret[1].frames = Len(written)
        /\ ret[1].frames = acount
        /\ ret[1].bytes = Len(Concat([j \in 1..Len(written) |-> encode(DataOf(written[j]))]))

---------------------------------------------------------------------------
(* Termination (SpecTimer) *)

\* C19: a segmented send in flight always comes to its return, whatever is
\* lost, echoed or not, and whoever disconnects, provided an ack timer that
\* stays armed fires: sendInProgress becomes false again.
C19_SendReturns == sendInProgress ~> ~sendInProgress

C19_Witness ==
    /\ ~sendInProgress
    /\ isConnected
    /\ ret # <<>> /\ ret # NotSent /\ ~ret[1].ok
    /\ delivered = 0
    /\ acount = 0
    /\ AckSlotClear

===========================================================================
